---- MODULE Spec2Model ----
(***************************************************************************)
(* A model of pytorch3d/implicitron/tools/config.py: the registry of       *)
(* pluggable implementations, the expansion of Configurable /              *)
(* ReplaceableBase classes into dataclasses, get_default_args,             *)
(* run_auto_creation and remove_unused_components.                         *)
(*                                                                         *)
(* Python strings are TLA+ strings (\o, Len and SubSeq act on them as on   *)
(* the characters).  A class is named by an identifier; ClassName gives    *)
(* its __name__, which two classes can share (a redefinition).  A dict is  *)
(* a sequence of records with a key field k, in insertion order.           *)
(***************************************************************************)
EXTENDS Naturals, Sequences, FiniteSets, TLC

VARIABLES world, mapping, cls, heap, tree, kept, last, nreg

vars == <<world, mapping, cls, heap, tree, kept, last, nreg>>

TYPE_SUFFIX == "_class_type"
ARGS_SUFFIX == "_args"
UNDEFAULTED == "UNDEFAULTED"
None == "None"

\* Python's recursion limit, scaled down: a call chain deeper than this
\* ends in RecursionError.
MaxDepth == 6
\* The number of register calls of one run.
MaxRegister == 2
\* The length a caller lets a list of a tree grow to.
MaxItems == 2

(***************************************************************************)
(* str helpers                                                             *)
(***************************************************************************)
EndsWith(s, suffix) ==
    /\ Len(s) >= Len(suffix)
    /\ SubSeq(s, Len(s) - Len(suffix) + 1, Len(s)) = suffix

StartsWith(s, prefix) ==
    /\ Len(s) >= Len(prefix)
    /\ SubSeq(s, 1, Len(prefix)) = prefix

\* key[:-n]
DropLast(s, n) == IF Len(s) <= n THEN "" ELSE SubSeq(s, 1, Len(s) - n)

(***************************************************************************)
(* dict helpers: a dict is a sequence of records with a field k            *)
(***************************************************************************)
Keys(d) == [i \in 1..Len(d) |-> d[i].k]

HasKey(d, key) == \E i \in 1..Len(d) : d[i].k = key

Lookup(d, key) == d[CHOOSE i \in 1..Len(d) : d[i].k = key]

\* an assignment that always adds an entry
MutPutAppend(d, entry) == Append(d, entry)

\* d[key] = entry: in place when the key is there, appended when not
Put(d, entry) ==
    IF HasKey(d, entry.k)
    THEN [i \in 1..Len(d) |-> IF d[i].k = entry.k THEN entry ELSE d[i]]
    ELSE Append(d, entry)

\* del d[key]
Del(d, key) == SelectSeq(d, LAMBDA e : e.k # key)

\* d.update(other)
RECURSIVE Update(_, _)
Update(d, other) ==
    IF other = <<>> THEN d ELSE Update(Put(d, Head(other)), Tail(other))

Range(s) == {s[i] : i \in 1..Len(s)}

(***************************************************************************)
(* config trees (DictConfig): entries [k, t, v], t the kind of the value,  *)
(* v a string for a primitive (t = "int", "str") and a tree for t = "tree" *)
(***************************************************************************)
Int(key, v) == [k |-> key, t |-> "int", v |-> v]
Str(key, v) == [k |-> key, t |-> "str", v |-> v]
Sub(key, v) == [k |-> key, t |-> "tree", v |-> v]

(***************************************************************************)
(* The classes the program declares.  An annotation is a record            *)
(*   [k, kind, ty, dv, target, dnp]:                                       *)
(*   kind "plain":  a field of type ty with default dv;                    *)
(*   kind "member": a field whose declared type ty is a class;             *)
(*   kind "args":   a generated DictConfig field whose default factory is  *)
(*                  get_default_args(target, _do_not_process = dnp).       *)
(***************************************************************************)
Plain(key, ty, dv) ==
    [k |-> key, kind |-> "plain", ty |-> ty, dv |-> dv, target |-> None, dnp |-> <<>>]
Member(key, ty) ==
    [k |-> key, kind |-> "member", ty |-> ty, dv |-> "", target |-> None, dnp |-> <<>>]
ArgsField(key, target, dnp) ==
    [k |-> key, kind |-> "args", ty |-> "DictConfig", dv |-> "", target |-> target, dnp |-> dnp]

Markers == {"object", "ReplaceableBase", "Configurable"}

\* Scenario A: the pluggability example of the module docstring with a base
\* class A that has no fields, and two later redefinitions of A2 (one changes
\* a default, one changes the fields).
WorldA == {"A", "A1", "A2", "A2b", "A2c", "B"}
\* Scenario A inside a class Top with a member of type B.
WorldT == {"A", "A1", "A2", "B", "Top"}
\* A hierarchy R whose implementations have pluggable members of type R.
WorldR == {"R", "I1", "I2"}
\* The same hierarchy with a subclass of the implementation I1 and a later
\* redefinition of I1.
WorldS == {"R", "I1", "I1s", "I1b"}
\* Fixed members along an inheritance chain GP <- P <- Q.
WorldF == {"F", "GP", "P", "Q"}
\* Classes whose fixed members form a cycle.
WorldX == {"X", "Y", "S", "PP", "QQ"}
\* Two hierarchies with implementations of the same name, for the registry.
WorldG == {"V", "V1", "V1b", "V11", "W", "V1w", "K"}
\* Two pluggable members, the name of one a prefix of the other's.
WorldP == {"A", "A1", "A2", "D"}
\* A member whose type is an implementation, not a namespace root, and a
\* class that declares the field a pluggable member would generate.
WorldE == {"A", "A1", "E", "CP"}
\* A fixed member whose generated field the class declares itself (CO) or
\* inherits (CC from CB).
WorldC == {"F", "CB", "CC", "CO"}
\* A class with pluggable members of two hierarchies whose implementations
\* go by the same name.
WorldN == {"V", "V1", "W", "V1w", "VW"}
\* A class UB that defines create_y and create_a for its members y and a, and
\* create_z for the member z that its subclass UD declares.
WorldU == {"F", "A", "A1", "UB", "UD"}
\* No classes: the run takes the defaulted arguments of functions.
WorldL == {}

Worlds == {"A", "T", "R", "S", "F", "X", "G", "P", "E", "C", "L", "N", "U"}

ClassesOf(w) ==
    CASE w = "A" -> WorldA
      [] w = "T" -> WorldT
      [] w = "R" -> WorldR
      [] w = "S" -> WorldS
      [] w = "F" -> WorldF
      [] w = "X" -> WorldX
      [] w = "G" -> WorldG
      [] w = "P" -> WorldP
      [] w = "E" -> WorldE
      [] w = "C" -> WorldC
      [] w = "L" -> WorldL
      [] w = "N" -> WorldN
      [] w = "U" -> WorldU

Classes == UNION {ClassesOf(w) : w \in Worlds}

\* The classes a run registers, and those it expands, takes the default tree
\* of and constructs.
RegisteredIn(w) ==
    CASE w = "A" -> {"A1", "A2", "A2b", "A2c"}
      [] w = "T" -> {"A1", "A2"}
      [] w = "R" -> {"I1", "I2"}
      [] w = "S" -> {"I1", "I1s", "I1b"}
      [] w = "G" -> WorldG
      [] w = "P" -> {"A1", "A2"}
      [] w = "E" -> {"A1"}
      [] w = "N" -> {"V1", "V1w"}
      [] w = "U" -> {"A1"}
      [] OTHER -> {}

TargetsOf(w) ==
    CASE w = "A" -> {"B"}
      [] w = "T" -> {"Top"}
      [] w = "R" -> {"I1", "I2"}
      [] w = "S" -> {"I1"}
      [] w = "F" -> WorldF
      [] w = "X" -> WorldX
      [] w = "P" -> {"D"}
      [] w = "E" -> {"E", "CP"}
      [] w = "C" -> {"CC", "CO"}
      [] w = "N" -> {"VW"}
      [] w = "U" -> {"UB", "UD"}
      [] OTHER -> {}

\* The functions a run takes the defaulted arguments of: f(x, y=5) and
\* g(z=[1], *, n, w="s"), whose default for z is the list object "g.z".
Functions == {"f", "g"}

CallablesOf(w) == IF w = "L" THEN Functions ELSE {}

\* Whether the caller of a run holds on to the tree it took before.
Keeps(w) == w = "L"

Required(key) == [k |-> key, has |-> FALSE, t |-> "", v |-> ""]
Defaulted(key, t, v) == [k |-> key, has |-> TRUE, t |-> t, v |-> v]

\* inspect.signature(C).parameters: has is default != Parameter.empty
Parameters(C) ==
    CASE C = "f" -> <<Required("x"), Defaulted("y", "int", "5")>>
      [] C = "g" -> <<Defaulted("z", "list", "g.z"), Required("n"), Defaulted("w", "str", "s")>>

\* The single base each class is declared with.
Parent(c) ==
    CASE c \in {"ReplaceableBase", "Configurable"} -> "object"
      [] c \in {"A", "R", "V", "W"} -> "ReplaceableBase"
      [] c \in {"A1", "A2", "A2b", "A2c"} -> "A"
      [] c \in {"I1", "I2", "I1b"} -> "R"
      [] c = "I1s" -> "I1"
      [] c \in {"V1", "V1b"} -> "V"
      [] c = "V11" -> "V1"
      [] c = "V1w" -> "W"
      [] c = "P" -> "GP"
      [] c = "Q" -> "P"
      [] c = "QQ" -> "PP"
      [] c = "CC" -> "CB"
      [] c = "UD" -> "UB"
      [] OTHER -> "Configurable"

\* cls.__name__
ClassName(c) ==
    CASE c \in {"A2b", "A2c"} -> "A2"
      [] c \in {"V1b", "V1w"} -> "V1"
      [] c = "I1b" -> "I1"
      [] OTHER -> c

\* cls.__annotations__ with the class attributes giving the defaults, as declared
Declared(c) ==
    CASE c = "A1" -> <<Plain("m", "int", "3")>>
      [] c = "A2" -> <<Plain("n", "str", "2")>>
      [] c = "A2b" -> <<Plain("n", "str", "7")>>
      [] c = "A2c" -> <<Plain("p", "int", "5")>>
      [] c = "B" -> <<Member("a", "A"), Plain("a_class_type", "str", "A2")>>
      [] c = "Top" -> <<Member("b", "B"), Plain("t", "int", "0")>>
      [] c = "I1" -> <<Member("r", "R")>>
      [] c = "I2" -> <<Plain("j", "int", "2"), Member("q", "R")>>
      [] c = "F" -> <<Plain("n", "int", "9")>>
      [] c = "GP" -> <<Member("g", "F"), Plain("u", "int", "1")>>
      [] c = "P" -> <<Member("p", "F")>>
      [] c = "Q" -> <<Member("y", "F"), Plain("w", "int", "4"), Member("z", "F")>>
      [] c = "X" -> <<Member("y", "Y")>>
      [] c = "Y" -> <<Member("x", "X")>>
      [] c = "S" -> <<Plain("i", "int", "0"), Member("s", "S")>>
      [] c = "PP" -> <<Member("q", "QQ")>>
      [] c = "D" -> <<Member("a_b", "A"), Member("a", "A")>>
      [] c = "E" -> <<Member("h", "A1"), Plain("c", "int", "1")>>
      [] c = "CP" -> <<Plain("a_A1_args", "int", "0"), Member("a", "A")>>
      [] c = "CB" -> <<Plain("y_args", "int", "0")>>
      [] c = "CC" -> <<Member("y", "F")>>
      [] c = "CO" -> <<Plain("y_args", "int", "0"), Member("y", "F")>>
      [] c = "VW" -> <<Member("u", "V"), Member("v", "V"), Member("w", "W")>>
      [] c = "UB" -> <<Member("y", "F"), Member("a", "A")>>
      [] c = "UD" -> <<Member("x", "F"), Member("z", "F")>>
      [] OTHER -> <<>>

\* A creation function create_<name>: the one _default_create(name, type_,
\* pluggable) returns, or one the class defines itself, which creates the
\* member as the default one does and then sets self.<name>_made.
DefaultCreate(name, ty, pluggable) ==
    [k |-> "create_" \o name, member |-> name, ty |-> ty, pluggable |-> pluggable,
     user |-> FALSE]
UserCreate(name, ty, pluggable) ==
    [k |-> "create_" \o name, member |-> name, ty |-> ty, pluggable |-> pluggable,
     user |-> TRUE]

\* the creation functions a class defines in its body
DefinedCreators(c) ==
    CASE c = "UB" -> <<UserCreate("y", "F", FALSE), UserCreate("a", "A", TRUE),
                       UserCreate("z", "F", FALSE)>>
      [] OTHER -> <<>>

\* Whether the class's __post_init__ calls run_auto_creation(self).
CallsRunAutoCreation(c) == \E i \in 1..Len(Declared(c)) : Declared(c)[i].kind = "member"

(***************************************************************************)
(* Python's class relations                                                *)
(***************************************************************************)
RECURSIVE Mro(_)
Mro(c) == IF c = "object" THEN <<"object">> ELSE <<c>> \o Mro(Parent(c))

IsSubclass(c, d) == d \in Range(Mro(c))

\* s[start::-1] counted from the end: s[-n::-1]
FromEndDownToFirst(s, n) ==
    IF Len(s) < n THEN <<>>
    ELSE [i \in 1..(Len(s) - n + 1) |-> s[Len(s) - n + 2 - i]]

\* s[-n:0:-1]
FromEndDownToSecond(s, n) ==
    IF Len(s) < n + 1 THEN <<>>
    ELSE [i \in 1..(Len(s) - n) |-> s[Len(s) - n + 2 - i]]

(***************************************************************************)
(* _Registry                                                               *)
(***************************************************************************)
ConfigErrors ==
    {"CannotTell", "RegisterBaseClass", "NotRegistered", "NotSubclass",
     "AlreadyPresent", "CannotProcess", "InternalRecursion", "FailedToProcess"}

_is_base_class(c) == "ReplaceableBase" \in {Parent(c)}

_base_class_from_class(c) ==
    LET cand == SelectSeq(FromEndDownToFirst(Mro(c), 3),
                          LAMBDA b : b # "ReplaceableBase" /\ IsSubclass(b, "ReplaceableBase"))
    IN  IF cand = <<>> THEN None ELSE Head(cand)

RegEntry(name, c) == [k |-> name, v |-> c]

\* _register without the test for the base class itself
MutRegisterBaseClass(map, c, name) ==
    LET base == _base_class_from_class(c)
    IN  IF base = None THEN [map |-> map, err |-> "CannotTell"]
        ELSE [map |-> [map EXCEPT ![base] = Put(@, RegEntry(name, c))], err |-> "ok"]

\* _register(some_class, name = name): the mapping afterwards, and the error
_register(map, c, name) ==
    LET base == _base_class_from_class(c)
    IN  IF base = None THEN [map |-> map, err |-> "CannotTell"]
        ELSE IF c = base THEN [map |-> map, err |-> "RegisterBaseClass"]
        ELSE [map |-> [map EXCEPT ![base] = Put(@, RegEntry(name, c))], err |-> "ok"]

\* register that stores the class in every namespace
MutRegisterInEveryNamespace(map, c) ==
    LET r == _register(map, c, ClassName(c))
    IN  IF r.err # "ok" THEN r
        ELSE [map |-> [b \in DOMAIN map |->
                          IF _is_base_class(b) THEN Put(map[b], RegEntry(ClassName(c), c))
                          ELSE map[b]],
              err |-> "ok"]

\* register(some_class)
register(map, c) == _register(map, c, ClassName(c))

\* get without the test that the result subclasses base_class_wanted
MutGetAnyClass(map, wanted, name) ==
    LET base == IF _is_base_class(wanted) THEN wanted ELSE _base_class_from_class(wanted)
    IN  IF base = None THEN [err |-> "CannotTell", val |-> None]
        ELSE IF ~HasKey(map[base], name) THEN [err |-> "NotRegistered", val |-> None]
        ELSE [err |-> "ok", val |-> Lookup(map[base], name).v]

\* get(base_class_wanted, name)
RegistryGet(map, wanted, name) ==
    LET base == IF _is_base_class(wanted) THEN wanted ELSE _base_class_from_class(wanted)
    IN  IF base = None THEN [err |-> "CannotTell", val |-> None]
        ELSE IF ~HasKey(map[base], name) THEN [err |-> "NotRegistered", val |-> None]
        ELSE LET result == Lookup(map[base], name).v
             IN  IF ~IsSubclass(result, wanted)
                 THEN [err |-> "NotSubclass", val |-> None]
                 ELSE [err |-> "ok", val |-> result]

\* get_all that returns the whole namespace for every base
MutGetAllOfNamespace(map, wanted) ==
    LET base == IF _is_base_class(wanted) THEN wanted ELSE _base_class_from_class(wanted)
    IN  IF base = None THEN [err |-> "CannotTell", val |-> <<>>]
        ELSE [err |-> "ok", val |-> [i \in 1..Len(map[base]) |-> map[base][i].v]]

\* get_all(base_class_wanted)
RegistryGetAll(map, wanted) ==
    IF _is_base_class(wanted)
    THEN [err |-> "ok", val |-> [i \in 1..Len(map[wanted]) |-> map[wanted][i].v]]
    ELSE LET base == _base_class_from_class(wanted)
         IN  IF base = None THEN [err |-> "CannotTell", val |-> <<>>]
             ELSE [err |-> "ok",
                   val |-> SelectSeq([i \in 1..Len(map[base]) |-> map[base][i].v],
                                     LAMBDA c : IsSubclass(c, wanted) /\ c # wanted)]

(***************************************************************************)
(* The state of a class object:                                            *)
(*   sealed    "__dataclass_fields__" in cls.__dict__                      *)
(*   ann       cls.__annotations__ (with the defaults the class holds)     *)
(*   fields    cls.__dataclass_fields__                                    *)
(*   cf, pm, ki   _creation_functions, _processed_members,                 *)
(*             _known_implementations                                      *)
(*   creators  the create_<member> functions the class holds               *)
(*   dnp, reg  history: the _do_not_process and the registry the class     *)
(*             was sealed with                                             *)
(*   failed    history: an expansion of the class has raised               *)
(*   raised    history: what the last expansion of the class raised        *)
(* The interpreter threads ms = [cls, warns, log]: the class objects, the  *)
(* warnings emitted and the creation functions called so far.              *)
(***************************************************************************)
Unprocessed(c) ==
    [sealed |-> FALSE, ann |-> Declared(c), fields |-> <<>>,
     cf |-> <<>>, pm |-> {}, ki |-> <<>>, creators |-> DefinedCreators(c),
     dnp |-> <<>>, reg |-> <<>>, failed |-> FALSE, raised |-> "ok"]

_is_configurable_class(c) ==
    IsSubclass(c, "Configurable") \/ IsSubclass(c, "ReplaceableBase")

\* a class that never counts as processed
MutNeverDataclass(ms, c) == FALSE

\* "__dataclass_fields__" in some_class.__dict__
_is_actually_dataclass(ms, c) == ms.cls[c].sealed

\* the condition of expand_args_fields for a pluggable member
IsPluggableType(ty) ==
    IsSubclass(ty, "ReplaceableBase") /\ "ReplaceableBase" \in {Parent(ty)}

\* hasattr(some_class, name) for a creation function
HasCreator(ms, c, fname) ==
    \E b \in Range(Mro(c)) \cap Classes : HasKey(ms.cls[b].creators, fname)

\* getattr(type(self), name) for a creation function: the first along the mro
GetCreator(ms, c, fname) ==
    LET owners == SelectSeq(Mro(c), LAMBDA b : b \in Classes /\ HasKey(ms.cls[b].creators, fname))
    IN  Lookup(ms.cls[Head(owners)].creators, fname)

SetAnn(ms, c, ann) == [ms EXCEPT !.cls[c].ann = ann]

\* a warning that is not emitted
MutWarnNothing(ms, w) == ms

\* warnings.warn(w)
Warn(ms, w) == [ms EXCEPT !.warns = Append(@, w)]

\* the loop of _process_member over registry.get_all(type_);
\* acc = [ms, err, cf, ki]
RECURSIVE AddImplementations(_, _, _, _, _)
RECURSIVE MutAddEveryImplementation(_, _, _, _, _)

\* the loop without the test that skips an implementation
MutAddEveryImplementation(acc, c, name, derived, dnp) ==
    IF derived = <<>> \/ acc.err # "ok" THEN acc
    ELSE LET derived_type == Head(derived)
             args_name == name \o "_" \o ClassName(derived_type) \o ARGS_SUFFIX
             ann == acc.ms.cls[c].ann
             known == [acc EXCEPT !.ki = Put(@, RegEntry(ClassName(derived_type), derived_type))]
         IN  IF HasKey(ann, args_name)
             THEN [known EXCEPT !.err = "AlreadyPresent"]
             ELSE MutAddEveryImplementation(
                      [known EXCEPT !.ms = SetAnn(@, c,
                          Append(ann, ArgsField(args_name, derived_type, Append(dnp, c))))],
                      c, name, Tail(derived), dnp)

AddImplementations(acc, c, name, derived, dnp) ==
    IF derived = <<>> \/ acc.err # "ok" THEN acc
    ELSE LET derived_type == Head(derived)
             args_name == name \o "_" \o ClassName(derived_type) \o ARGS_SUFFIX
             ann == acc.ms.cls[c].ann
         IN  IF derived_type \in Range(dnp) \/ IsSubclass(derived_type, c)
             THEN AddImplementations(acc, c, name, Tail(derived), dnp)
             ELSE LET known == [acc EXCEPT !.ki = Put(@, RegEntry(ClassName(derived_type), derived_type))]
                  IN  IF HasKey(ann, args_name)
                      THEN [known EXCEPT !.err = "AlreadyPresent"]
                      ELSE AddImplementations(
                               [known EXCEPT !.ms = SetAnn(@, c,
                                   Append(ann, ArgsField(args_name, derived_type, Append(dnp, c))))],
                               c, name, Tail(derived), dnp)

\* the creation function put at the front of creation_functions
MutAddCreatorFirst(acc, c, e, pluggable) ==
    LET fname == "create_" \o e.k
        ms1 == IF HasCreator(acc.ms, c, fname) THEN acc.ms
               ELSE [acc.ms EXCEPT !.cls[c].creators = Append(@, DefaultCreate(e.k, e.ty, pluggable))]
    IN  [acc EXCEPT !.ms = ms1, !.cf = <<fname>> \o @]

\* the creation function generated whether or not the class has one
MutAlwaysGenerate(acc, c, e, pluggable) ==
    [acc EXCEPT !.ms.cls[c].creators = Put(@, DefaultCreate(e.k, e.ty, pluggable)),
                !.cf = Append(@, "create_" \o e.k)]

\* the tail of _process_member: the creation function
AddCreator(acc, c, e, pluggable) ==
    LET fname == "create_" \o e.k
        ms1 == IF HasCreator(acc.ms, c, fname) THEN acc.ms
               ELSE [acc.ms EXCEPT !.cls[c].creators = Append(@, DefaultCreate(e.k, e.ty, pluggable))]
    IN  [acc EXCEPT !.ms = ms1, !.cf = Append(@, fname)]

\* _process_member(name = e.k, type_ = e.ty, pluggable, some_class = c, ...)
_process_member(acc, map, c, e, pluggable, dnp) ==
    LET ann1 == Del(acc.ms.cls[c].ann, e.k)
        a1 == [acc EXCEPT !.ms = SetAnn(@, c, ann1)]
    IN  IF pluggable
        THEN LET type_name == e.k \o TYPE_SUFFIX
                 ann2 == IF HasKey(ann1, type_name) THEN ann1
                         ELSE Append(ann1, Plain(type_name, "str", UNDEFAULTED))
                 a2 == [a1 EXCEPT !.ms = SetAnn(@, c, ann2)]
                 Then(r) == IF r.err # "ok" THEN r ELSE AddCreator(r, c, e, pluggable)
             IN  Then(AddImplementations(a2, c, e.k, RegistryGetAll(map, e.ty).val, dnp))
        ELSE LET args_name == e.k \o ARGS_SUFFIX
             IN  IF HasKey(ann1, args_name) THEN [a1 EXCEPT !.err = "AlreadyPresent"]
                 ELSE IF IsSubclass(e.ty, c) \/ e.ty \in Range(dnp)
                 THEN [a1 EXCEPT !.err = "CannotProcess"]
                 ELSE AddCreator(
                          [a1 EXCEPT !.ms = SetAnn(@, c,
                              Append(ann1, ArgsField(args_name, e.ty, Append(dnp, c))))],
                          c, e, pluggable)

\* the members expand_args_fields collects in to_process
ToProcess(ann) ==
    SelectSeq(ann, LAMBDA e : e.kind = "member"
                              /\ (IsPluggableType(e.ty) \/ IsSubclass(e.ty, "Configurable")))

RECURSIVE ProcessMembers(_, _, _, _, _)
ProcessMembers(acc, map, c, todo, dnp) ==
    IF todo = <<>> \/ acc.err # "ok" THEN acc
    ELSE LET e == Head(todo)
             Then(r) ==
                 IF r.err # "ok" THEN [acc EXCEPT !.ms = r.ms, !.err = r.err]
                 ELSE ProcessMembers([ms |-> r.ms, err |-> "ok", cf |-> r.cf, ki |-> r.ki,
                                      pm |-> acc.pm \cup {e.k}],
                                     map, c, Tail(todo), dnp)
         IN  Then(_process_member([ms |-> acc.ms, err |-> "ok", cf |-> acc.cf, ki |-> acc.ki],
                                  map, c, e, IsPluggableType(e.ty), dnp))

\* the warnings of expand_args_fields for a creation function named twice
RECURSIVE ClashWarnings(_, _)
ClashWarnings(cf, seen) ==
    IF cf = <<>> THEN <<>>
    ELSE LET key == Head(cf)
             count == Cardinality({i \in 1..Len(cf) : cf[i] = key})
             rest == ClashWarnings(Tail(cf), seen \cup {key})
         IN  IF key \notin seen /\ count > 1
             THEN <<"Clash with " \o key \o " in a base class.">> \o rest
             ELSE rest

\* dataclasses.dataclass(eq=False)(some_class): the fields of the bases that are
\* dataclasses, then the class's own annotations; __dataclass_fields__ is set
\* before __init__ is generated, which raises TypeError when a field without a
\* default follows one with a default.
RECURSIVE BaseFields(_, _, _)
BaseFields(ms, bases, fields) ==
    IF bases = <<>> THEN fields
    ELSE BaseFields(ms, Tail(bases),
                    IF Head(bases) \in Classes
                    THEN Update(fields, ms.cls[Head(bases)].fields) ELSE fields)

HasDefault(e) == e.kind # "member"

DataclassFields(ms, c) ==
    Update(BaseFields(ms, FromEndDownToSecond(Mro(c), 1), <<>>), ms.cls[c].ann)

DataclassError(fields) ==
    IF \E i, j \in 1..Len(fields) : i < j /\ HasDefault(fields[i]) /\ ~HasDefault(fields[j])
    THEN "TypeError" ELSE "ok"

RECURSIVE expand_args_fields(_, _, _, _)
RECURSIVE ExpandBases(_, _, _, _)

\* the loop of expand_args_fields over some_class.mro()[-3:0:-1];
\* acc = [ms, err, cf, ki, pm]
ExpandBases(acc, map, bases, dnp) ==
    IF bases = <<>> \/ acc.err # "ok" THEN acc
    ELSE LET base == Head(bases)
             Then(r) ==
                 IF r.err # "ok" THEN [acc EXCEPT !.ms = r.ms, !.err = r.err]
                 ELSE ExpandBases([ms |-> r.ms, err |-> "ok",
                                   cf |-> acc.cf \o r.ms.cls[base].cf,
                                   ki |-> Update(acc.ki, r.ms.cls[base].ki),
                                   pm |-> acc.pm \cup r.ms.cls[base].pm],
                                  map, Tail(bases), dnp)
         IN  Then(expand_args_fields(acc.ms, map, base, dnp))

\* an expansion that records its bookkeeping and makes the dataclass also when
\* a member has raised
MutSealOnError(ms, map, c, dnp) ==
    LET bases == SelectSeq(FromEndDownToSecond(Mro(c), 3),
                           LAMBDA b : b \notin {"ReplaceableBase", "Configurable"}
                                      /\ _is_configurable_class(b))
        Seal(p, fields) ==
            [ms |-> [p.ms EXCEPT !.cls[c].cf = p.cf,
                                 !.cls[c].pm = p.pm,
                                 !.cls[c].ki = p.ki,
                                 !.cls[c].fields = fields,
                                 !.cls[c].sealed = TRUE,
                                 !.cls[c].dnp = dnp,
                                 !.cls[c].reg = map,
                                 !.cls[c].failed = @ \/ p.err # "ok",
                                 !.cls[c].raised = p.err],
             err |-> p.err]
        Finish(p) == Seal(p, DataclassFields(p.ms, c))
        Members(a) ==
            Finish(IF a.err # "ok" THEN [a EXCEPT !.cf = <<>>, !.ki = <<>>, !.pm = {}]
                   ELSE ProcessMembers(a, map, c, ToProcess(a.ms.cls[c].ann), dnp))
    IN  Members(ExpandBases([ms |-> ms, err |-> "ok", cf |-> <<>>, ki |-> <<>>, pm |-> {}],
                            map, bases, dnp))

\* expand_args_fields(some_class = c, _do_not_process = dnp) past its first
\* line, for a class that is not a dataclass yet: [ms, err]
ExpandUnprocessed(ms, map, c, dnp) ==
    LET bases == SelectSeq(FromEndDownToSecond(Mro(c), 3),
                           LAMBDA b : b \notin {"ReplaceableBase", "Configurable"}
                                      /\ _is_configurable_class(b))
        Seal(p, fields, err) ==
            [ms |-> [p.ms EXCEPT !.cls[c].cf = p.cf,
                                 !.cls[c].pm = p.pm,
                                 !.cls[c].ki = p.ki,
                                 !.cls[c].fields = fields,
                                 !.cls[c].sealed = TRUE,
                                 !.cls[c].dnp = dnp,
                                 !.cls[c].reg = map,
                                 !.cls[c].failed = @ \/ err # "ok",
                                 !.cls[c].raised = err,
                                 !.warns = @ \o ClashWarnings(p.cf, {})],
             err |-> err]
        Dataclass(p, fields) == Seal(p, fields, DataclassError(fields))
        Finish(p) ==
            IF p.err # "ok"
            THEN [ms |-> [p.ms EXCEPT !.cls[c].failed = TRUE, !.cls[c].raised = p.err],
                  err |-> p.err]
            ELSE Dataclass(p, DataclassFields(p.ms, c))
        Members(a) ==
            Finish(IF a.err # "ok" THEN a
                   ELSE ProcessMembers(a, map, c, ToProcess(a.ms.cls[c].ann), dnp))
    IN  Members(ExpandBases([ms |-> ms, err |-> "ok", cf |-> <<>>, ki |-> <<>>, pm |-> {}],
                            map, bases, dnp))

\* expand_args_fields without its first line
MutExpandAlways(ms, map, c, dnp) == ExpandUnprocessed(ms, map, c, dnp)

\* expand_args_fields(some_class = c, _do_not_process = dnp): [ms, err]
expand_args_fields(ms, map, c, dnp) ==
    IF _is_actually_dataclass(ms, c) THEN [ms |-> ms, err |-> "ok"]
    ELSE ExpandUnprocessed(ms, map, c, dnp)

(***************************************************************************)
(* Objects.  A list is an object of the heap, named by an identifier; a    *)
(* tree holds it as an entry [k, t |-> "list", v |-> identifier].  The     *)
(* heap maps an identifier to [live, items]; an object that nothing refers *)
(* to any more is not live.                                                *)
(***************************************************************************)
DefaultObjects == {"g.z"}
CopyIds == <<"o1", "o2", "o3">>
ObjectIds == DefaultObjects \cup Range(CopyIds)

NoObject == [live |-> FALSE, items |-> <<>>]
List(items) == [live |-> TRUE, items |-> items]

InitialHeap == [id \in ObjectIds |-> IF id = "g.z" THEN List(<<"1">>) ELSE NoObject]

\* the objects a tree refers to
RECURSIVE Ids(_)
Ids(t) ==
    UNION {IF t[i].t = "list" THEN {t[i].v}
           ELSE IF t[i].t = "tree" THEN Ids(t[i].v) ELSE {}
           : i \in 1..Len(t)}

\* the tree with the contents of its lists in the place of the objects
RECURSIVE Deref(_, _)
Deref(h, t) ==
    [i \in 1..Len(t) |->
        IF t[i].t = "list" THEN [t[i] EXCEPT !.v = h[t[i].v].items]
        ELSE IF t[i].t = "tree" THEN [t[i] EXCEPT !.v = Deref(h, @)]
        ELSE t[i]]

\* the heap without the objects that neither a default nor one of used is
Collect(h, used) ==
    [id \in ObjectIds |-> IF id \in DefaultObjects \cup used THEN h[id] ELSE NoObject]

\* a default handed on as the object it is
MutNoCopy(ms, item) == [ms |-> ms, val |-> item]

\* copy.deepcopy(defval.default): a primitive is itself, a list is copied to a
\* new object; [ms, val]
DeepCopy(ms, item) ==
    IF item.t # "list" THEN [ms |-> ms, val |-> item]
    ELSE LET free == {i \in 1..Len(CopyIds) : ~ms.heap[CopyIds[i]].live}
             id == CopyIds[CHOOSE i \in free : \A j \in free : i <= j]
         IN  [ms |-> [ms EXCEPT !.heap[id] = List(ms.heap[item.v].items)],
              val |-> [item EXCEPT !.v = id]]

RECURSIVE DefaultedParameters(_, _)
RECURSIVE MutKeepEveryParameter(_, _)

\* the loop that takes a parameter without a default too
MutKeepEveryParameter(acc, params) ==
    IF params = <<>> THEN acc
    ELSE LET pname == Head(params).k
             defval == Head(params)
             Then(r) ==
                 MutKeepEveryParameter([ms |-> r.ms, err |-> "ok", val |-> Append(acc.val, r.val)],
                                       Tail(params))
         IN  Then(DeepCopy(acc.ms, [k |-> pname, t |-> defval.t, v |-> defval.v]))

\* the loop of get_default_args over sig.parameters; acc = [ms, err, val]
DefaultedParameters(acc, params) ==
    IF params = <<>> THEN acc
    ELSE LET pname == Head(params).k
             defval == Head(params)
             Then(r) ==
                 DefaultedParameters([ms |-> r.ms, err |-> "ok", val |-> Append(acc.val, r.val)],
                                     Tail(params))
         IN  IF ~defval.has THEN DefaultedParameters(acc, Tail(params))
             ELSE Then(DeepCopy(acc.ms, [k |-> pname, t |-> defval.t, v |-> defval.v]))

(***************************************************************************)
(* get_default_args                                                        *)
(***************************************************************************)
RECURSIVE get_default_args(_, _, _, _, _)
RECURSIVE Structured(_, _, _, _)

\* OmegaConf.structured(C), field by field: a default is taken as it is, a
\* default factory is called, a field with neither is missing ("???");
\* acc = [ms, err, val]
Structured(acc, map, fields, d) ==
    IF fields = <<>> \/ acc.err # "ok" THEN acc
    ELSE LET f == Head(fields)
         IN  IF f.kind = "args"
             THEN LET Then(r) ==
                          IF r.err # "ok" THEN [ms |-> r.ms, err |-> r.err, val |-> <<>>]
                          ELSE Structured([ms |-> r.ms, err |-> "ok",
                                           val |-> Append(acc.val, Sub(f.k, r.val))],
                                          map, Tail(fields), d)
                  IN  Then(get_default_args(acc.ms, map, f.target, f.dnp, d + 1))
             ELSE Structured([acc EXCEPT !.val = Append(@,
                                  IF f.kind = "plain"
                                  THEN [k |-> f.k, t |-> f.ty, v |-> f.dv]
                                  ELSE Str(f.k, "???"))],
                             map, Tail(fields), d)

\* out.pop(field, None) for every field of exclude
PopAll(out, exclude) == SelectSeq(out, LAMBDA e : e.k \notin exclude)

\* get_default_args(C, _do_not_process = dnp) for C None, a class or a
\* function, at call depth d: [ms, err, val]
get_default_args(ms, map, C, dnp, d) ==
    IF d > MaxDepth THEN [ms |-> ms, err |-> "RecursionError", val |-> <<>>]
    ELSE IF C = None THEN [ms |-> ms, err |-> "ok", val |-> <<>>]
    ELSE IF C \in Functions
    THEN DefaultedParameters([ms |-> ms, err |-> "ok", val |-> <<>>], Parameters(C))
    ELSE IF C \in Range(dnp) THEN [ms |-> ms, err |-> "InternalRecursion", val |-> <<>>]
    ELSE LET Pop(out) ==
                 IF out.err # "ok" THEN out
                 ELSE [out EXCEPT !.val = PopAll(@, out.ms.cls[C].pm)]
             Then(e) ==
                 IF e.err # "ok" THEN [ms |-> e.ms, err |-> e.err, val |-> <<>>]
                 ELSE Pop(Structured([ms |-> e.ms, err |-> "ok", val |-> <<>>],
                                     map, e.ms.cls[C].fields, d))
         IN  Then(expand_args_fields(ms, map, C, dnp))

(***************************************************************************)
(* Construction of an instance and run_auto_creation.  An instance is      *)
(* [cls, attrs]: its class and its attributes, entries [k, t, v] as in a   *)
(* tree, with t = "obj" and v an instance for a created member.            *)
(***************************************************************************)
Obj(key, v) == [k |-> key, t |-> "obj", v |-> v]

Called(ms, c, fname, d) == [ms EXCEPT !.log = Append(@, [c |-> c, f |-> fname, d |-> d])]

RECURSIVE New(_, _, _, _, _)
RECURSIVE InitFields(_, _, _, _, _)
RECURSIVE RunCreationFunctions(_, _, _, _)
RECURSIVE MutRunPastError(_, _, _, _)

\* the body of the __init__ dataclass generates: each field from the keyword
\* argument, else from its default or default factory; acc = [ms, err, val]
InitFields(acc, map, fields, kwargs, d) ==
    IF fields = <<>> \/ acc.err # "ok" THEN acc
    ELSE LET f == Head(fields)
         IN  IF HasKey(kwargs, f.k)
             THEN InitFields([acc EXCEPT !.val.attrs = Append(@, Lookup(kwargs, f.k))],
                             map, Tail(fields), kwargs, d)
             ELSE IF f.kind = "args"
             THEN LET Then(r) ==
                          IF r.err # "ok" THEN [acc EXCEPT !.ms = r.ms, !.err = r.err]
                          ELSE InitFields([acc EXCEPT !.ms = r.ms,
                                                      !.val.attrs = Append(@, Sub(f.k, r.val))],
                                          map, Tail(fields), kwargs, d)
                  IN  Then(get_default_args(acc.ms, map, f.target, f.dnp, d + 1))
             ELSE InitFields([acc EXCEPT !.val.attrs = Append(@, [k |-> f.k, t |-> f.ty, v |-> f.dv])],
                             map, Tail(fields), kwargs, d)

\* the member constructed without the arguments: chosen_class()
MutCreateFromDefaults(acc, map, e, chosen_class, name, args_name, d) ==
    LET self == acc.val
        Then(r) ==
            IF r.err # "ok" THEN [acc EXCEPT !.ms = r.ms, !.err = r.err]
            ELSE [ms |-> r.ms, err |-> "ok",
                  val |-> [self EXCEPT !.attrs = Put(@, Obj(name, r.val))]]
    IN  IF e.err # "ok" THEN [acc EXCEPT !.ms = e.ms, !.err = e.err]
        ELSE IF ~HasKey(self.attrs, args_name)
        THEN [acc EXCEPT !.ms = e.ms, !.err = "AttributeError"]
        ELSE Then(New(e.ms, map, chosen_class, <<>>, d + 1))

\* the end of inner and inner_pluggable: setattr(self, name, chosen_class(**args))
\* after expand_args_fields(chosen_class) has returned e = [ms, err]
CreateFrom(acc, map, e, chosen_class, name, args_name, d) ==
    LET self == acc.val
        Then(r) ==
            IF r.err # "ok" THEN [acc EXCEPT !.ms = r.ms, !.err = r.err]
            ELSE [ms |-> r.ms, err |-> "ok",
                  val |-> [self EXCEPT !.attrs = Put(@, Obj(name, r.val))]]
    IN  IF e.err # "ok" THEN [acc EXCEPT !.ms = e.ms, !.err = e.err]
        ELSE IF ~HasKey(self.attrs, args_name)
        THEN [acc EXCEPT !.ms = e.ms, !.err = "AttributeError"]
        ELSE IF Lookup(self.attrs, args_name).t # "tree"
        THEN [acc EXCEPT !.ms = e.ms, !.err = "TypeError"]
        ELSE Then(New(e.ms, map, chosen_class, Lookup(self.attrs, args_name).v, d + 1))

\* _default_create(...).inner and inner_pluggable, called on self = acc.val
CreateMember(acc, map, creator, d) ==
    LET self == acc.val
        name == creator.member
    IN  IF creator.pluggable
        THEN LET type_name == Lookup(self.attrs, name \o TYPE_SUFFIX).v
                 ki == acc.ms.cls[self.cls].ki
                 Then(got) ==
                     IF got.err # "ok" THEN [acc EXCEPT !.err = got.err]
                     ELSE CreateFrom(acc, map,
                              expand_args_fields(
                                  IF HasKey(ki, type_name) /\ Lookup(ki, type_name).v # got.val
                                  THEN Warn(acc.ms, "New implementation of " \o type_name
                                                        \o " is being chosen.")
                                  ELSE acc.ms,
                                  map, got.val, <<>>),
                              got.val, name, name \o "_" \o type_name \o ARGS_SUFFIX, d)
             IN  IF ~HasKey(self.attrs, name \o TYPE_SUFFIX)
                 THEN [acc EXCEPT !.err = "AttributeError"]
                 ELSE Then(RegistryGet(map, creator.ty, type_name))
        ELSE CreateFrom(acc, map, expand_args_fields(acc.ms, map, creator.ty, <<>>),
                        creator.ty, name, name \o ARGS_SUFFIX, d)

\* getattr(self, create_function)(): the function the class holds, a
\* generated one or one the class defines
CallCreator(acc, map, creator, d) ==
    LET Made(r) ==
            IF r.err # "ok" THEN r
            ELSE [r EXCEPT !.val.attrs = Put(@, Str(creator.member \o "_made", "yes"))]
    IN  IF creator.user THEN Made(CreateMember(acc, map, creator, d))
        ELSE CreateMember(acc, map, creator, d)

\* a loop that goes on with the next function when one has raised
MutRunPastError(acc, map, cf, d) ==
    IF cf = <<>> THEN acc
    ELSE LET c == acc.val.cls
             called == [acc EXCEPT !.ms = Called(@, c, Head(cf), d), !.err = "ok"]
             Keep(r) ==
                 MutRunPastError([r EXCEPT !.err = IF acc.err # "ok" THEN acc.err ELSE @],
                                 map, Tail(cf), d)
         IN  Keep(CallCreator(called, map, GetCreator(acc.ms, c, Head(cf)), d))

\* the loop of run_auto_creation over self._creation_functions
RunCreationFunctions(acc, map, cf, d) ==
    IF cf = <<>> \/ acc.err # "ok" THEN acc
    ELSE LET c == acc.val.cls
             called == [acc EXCEPT !.ms = Called(@, c, Head(cf), d)]
         IN  RunCreationFunctions(
                 CallCreator(called, map, GetCreator(acc.ms, c, Head(cf)), d),
                 map, Tail(cf), d)

\* run_auto_creation(self)
run_auto_creation(acc, map, d) ==
    RunCreationFunctions(acc, map, acc.ms.cls[acc.val.cls].cf, d)

\* whether the class has a __post_init__ that calls run_auto_creation(self)
HasPostInit(c) == \E b \in Range(Mro(c)) \cap Classes : CallsRunAutoCreation(b)

\* C(**kwargs) for a class C that is a dataclass, at call depth d; on an error
\* val is the instance as far as it was built
New(ms, map, C, kwargs, d) ==
    LET self0 == [cls |-> C, attrs |-> <<>>]
        fields == ms.cls[C].fields
    IN  IF d > MaxDepth THEN [ms |-> ms, err |-> "RecursionError", val |-> self0]
        ELSE IF \/ \E i \in 1..Len(kwargs) : ~HasKey(fields, kwargs[i].k)
                \/ \E i \in 1..Len(fields) : ~HasDefault(fields[i]) /\ ~HasKey(kwargs, fields[i].k)
        THEN [ms |-> ms, err |-> "TypeError", val |-> self0]
        ELSE LET Then(init) ==
                     IF init.err # "ok" \/ ~HasPostInit(C) THEN init
                     ELSE run_auto_creation(init, map, d)
             IN  Then(InitFields([ms |-> ms, err |-> "ok", val |-> self0],
                                 map, fields, kwargs, d))

(***************************************************************************)
(* remove_unused_components: [err, val], val the tree as the call leaves   *)
(* it (it is modified in place, also by a call that raises)                *)
(***************************************************************************)
RECURSIVE DeleteOthers(_, _, _, _)
RECURSIVE MutDeleteFirstOnly(_, _, _, _)

\* a loop that ends with its first deletion
MutDeleteFirstOnly(acc, args_keys, replaceable, expect) ==
    IF args_keys = <<>> \/ acc.err # "ok" THEN acc
    ELSE LET key == Head(args_keys)
         IN  IF StartsWith(key, replaceable \o "_") /\ key # expect
             THEN IF HasKey(acc.val, key) THEN [acc EXCEPT !.val = Del(@, key)]
                  ELSE [acc EXCEPT !.err = "KeyError"]
             ELSE MutDeleteFirstOnly(acc, Tail(args_keys), replaceable, expect)

\* the inner loop: for key in args_keys
DeleteOthers(acc, args_keys, replaceable, expect) ==
    IF args_keys = <<>> \/ acc.err # "ok" THEN acc
    ELSE LET key == Head(args_keys)
         IN  IF StartsWith(key, replaceable \o "_") /\ key # expect
             THEN IF HasKey(acc.val, key)
                  THEN DeleteOthers([acc EXCEPT !.val = Del(@, key)],
                                    Tail(args_keys), replaceable, expect)
                  ELSE [acc EXCEPT !.err = "KeyError"]
             ELSE DeleteOthers(acc, Tail(args_keys), replaceable, expect)

\* the outer loop: for replaceable in replaceables
RECURSIVE PruneReplaceables(_, _, _)
PruneReplaceables(acc, replaceables, args_keys) ==
    IF replaceables = <<>> \/ acc.err # "ok" THEN acc
    ELSE LET replaceable == Head(replaceables)
             selected == Lookup(acc.val, replaceable \o TYPE_SUFFIX)
             expect == replaceable \o "_" \o selected.v \o ARGS_SUFFIX
         IN  IF selected.t # "str" THEN [acc EXCEPT !.err = "TypeError"]
             ELSE PruneReplaceables(DeleteOthers(acc, args_keys, replaceable, expect),
                                    Tail(replaceables), args_keys)

RECURSIVE remove_unused_components(_)
RECURSIVE PruneChildren(_, _)

\* the last loop: for key in dict_, from the i-th key on
PruneChildren(acc, i) ==
    IF i > Len(acc.val) \/ acc.err # "ok" THEN acc
    ELSE IF acc.val[i].t = "tree"
    THEN LET Then(r) ==
                 PruneChildren([err |-> r.err, val |-> [acc.val EXCEPT ![i].v = r.val]], i + 1)
         IN  Then(remove_unused_components(acc.val[i].v))
    ELSE PruneChildren(acc, i + 1)

remove_unused_components(dict_) ==
    LET keys == Keys(dict_)
        type_keys == SelectSeq(keys, LAMBDA key : EndsWith(key, TYPE_SUFFIX))
        replaceables == [i \in 1..Len(type_keys) |-> DropLast(type_keys[i], Len(TYPE_SUFFIX))]
        args_keys == SelectSeq(keys, LAMBDA key : EndsWith(key, ARGS_SUFFIX))
    IN  PruneChildren(PruneReplaceables([err |-> "ok", val |-> dict_], replaceables, args_keys), 1)

(***************************************************************************)
(* The program: a caller that registers classes, expands them, takes a     *)
(* default tree, edits and prunes it, and constructs an instance from it.  *)
(*   world    the set of classes this run works with                       *)
(*   mapping  registry._mapping                                            *)
(*   cls      the class objects                                            *)
(*   heap     the list objects                                             *)
(*   tree     the caller's config tree: [of, val, stage, orig], the class  *)
(*            or function it was taken from, the tree, and how far the     *)
(*            caller is: "taken" from get_default_args and edited,         *)
(*            "pruned" once after that, "other" after anything else;       *)
(*            stage and orig (the tree as it was returned) are history,    *)
(*            the tree in use is val                                       *)
(*   kept     [of, val]: the tree the caller took before tree and has not  *)
(*            touched since                                                *)
(*   last     the last call: what was called, what it raised and returned  *)
(*   nreg     the number of register calls so far                          *)
(***************************************************************************)
NoCall ==
    [op |-> "none", arg |-> None, name |-> "", pre |-> FALSE, err |-> "ok",
     warns |-> <<>>, log |-> <<>>, ret |-> <<>>, newly |-> {}]

Machine == [cls |-> cls, heap |-> heap, warns |-> <<>>, log |-> <<>>]

NewlySealed(after) == {c \in Classes : after[c].sealed /\ ~cls[c].sealed}

Init ==
    /\ world \in Worlds
    /\ mapping = [c \in Classes |-> <<>>]
    /\ cls = [c \in Classes |-> Unprocessed(c)]
    /\ heap = InitialHeap
    /\ tree = [of |-> None, val |-> <<>>, stage |-> "other", orig |-> <<>>]
    /\ kept = [of |-> None, val |-> <<>>]
    /\ last = NoCall
    /\ nreg = 0

\* the namespace of c's root holds another type under c's name
NameTaken(c) ==
    LET base == _base_class_from_class(c)
    IN  /\ base # None
        /\ HasKey(mapping[base], ClassName(c))
        /\ Lookup(mapping[base], ClassName(c)).v # c

\* registry.register(c); pre records whether the name was taken
Register(c) ==
    LET Then(r) ==
            /\ mapping' = r.map
            /\ last' = [NoCall EXCEPT !.op = "register", !.arg = c, !.err = r.err,
                                      !.pre = NameTaken(c)]
    IN  /\ nreg < MaxRegister
        /\ nreg' = nreg + 1
        /\ Then(register(mapping, c))
        /\ UNCHANGED <<world, cls, heap, tree, kept>>

\* registry.get(base, name)
Get(base, name) ==
    LET Then(r) ==
            last' = [NoCall EXCEPT !.op = "get", !.arg = base, !.name = name,
                                   !.err = r.err, !.ret = r.val]
    IN  /\ Then(RegistryGet(mapping, base, name))
        /\ UNCHANGED <<world, mapping, cls, heap, tree, kept, nreg>>

\* registry.get_all(base)
GetAll(base) ==
    LET Then(r) ==
            last' = [NoCall EXCEPT !.op = "get_all", !.arg = base, !.err = r.err, !.ret = r.val]
    IN  /\ Then(RegistryGetAll(mapping, base))
        /\ UNCHANGED <<world, mapping, cls, heap, tree, kept, nreg>>

\* expand_args_fields(c)
ExpandArgsFields(c) ==
    LET Then(r) ==
            /\ cls' = r.ms.cls
            /\ heap' = Collect(r.ms.heap, Ids(tree.val) \cup Ids(kept.val))
            /\ last' = [NoCall EXCEPT !.op = "expand", !.arg = c, !.pre = cls[c].sealed,
                                      !.err = r.err, !.warns = r.ms.warns,
                                      !.newly = NewlySealed(r.ms.cls)]
    IN  /\ Then(expand_args_fields(Machine, mapping, c, <<>>))
        /\ UNCHANGED <<world, mapping, tree, kept, nreg>>

\* "__dataclass_fields__" in C.__dict__, for a class or a function
IsSealed(C) == C \in Classes /\ cls[C].sealed

\* tree = get_default_args(c), the caller that keeps trees holding on to the
\* tree it had; orig records the tree as it was returned
GetDefaultArgs(c) ==
    LET Taken(r) ==
            [of |-> c, val |-> r.val, stage |-> "taken",
             orig |-> Deref(r.ms.heap, r.val)]
        Then(r) ==
            /\ cls' = r.ms.cls
            /\ tree' = IF r.err = "ok" THEN Taken(r) ELSE tree
            /\ kept' = IF r.err = "ok" /\ Keeps(world)
                       THEN [of |-> tree.of, val |-> tree.val] ELSE kept
            /\ heap' = Collect(r.ms.heap, Ids(tree'.val) \cup Ids(kept'.val))
            /\ last' = [NoCall EXCEPT !.op = "get_default_args", !.arg = c, !.pre = IsSealed(c),
                                      !.err = r.err, !.warns = r.ms.warns,
                                      !.newly = NewlySealed(r.ms.cls)]
    IN  /\ Then(get_default_args(Machine, mapping, c, <<>>, 0))
        /\ UNCHANGED <<world, mapping, nreg>>

\* the places of a tree: the sequences of keys leading to an entry
RECURSIVE Places(_)
Places(t) ==
    UNION {{<<t[i].k>>} \cup (IF t[i].t = "tree"
                               THEN {<<t[i].k>> \o p : p \in Places(t[i].v)} ELSE {})
           : i \in 1..Len(t)}

RECURSIVE SetAt(_, _, _)
SetAt(t, place, entry) ==
    [i \in 1..Len(t) |->
        IF t[i].k # Head(place) THEN t[i]
        ELSE IF Len(place) = 1 THEN entry
        ELSE [t[i] EXCEPT !.v = SetAt(@, Tail(place), entry)]]

\* the caller's edit: tree.<place> = name, for a place that is a class type
SetClassType(place, name) ==
    /\ tree.of # None
    /\ place \in Places(tree.val)
    /\ EndsWith(place[Len(place)], TYPE_SUFFIX)
    /\ tree' = [tree EXCEPT !.val = SetAt(@, place, Str(place[Len(place)], name)),
                            !.stage = IF @ = "taken" THEN "taken" ELSE "other"]
    /\ last' = [NoCall EXCEPT !.op = "set", !.arg = tree.of, !.name = name]
    /\ UNCHANGED <<world, mapping, cls, heap, kept, nreg>>

\* the caller's edit: tree.<key>.append(9), for the i-th key of the tree
AppendTo(i) ==
    /\ tree.of # None
    /\ tree.val[i].t = "list"
    /\ Len(heap[tree.val[i].v].items) < MaxItems
    /\ heap' = [heap EXCEPT ![tree.val[i].v].items = Append(@, "9")]
    /\ last' = [NoCall EXCEPT !.op = "append", !.arg = tree.of]
    /\ UNCHANGED <<world, mapping, cls, tree, kept, nreg>>

\* remove_unused_components(tree)
RemoveUnusedComponents ==
    LET Then(r) ==
            /\ tree' = [tree EXCEPT !.val = r.val, !.stage = IF @ = "taken" /\ r.err = "ok" THEN "pruned" ELSE "other"]
            /\ heap' = Collect(heap, Ids(r.val) \cup Ids(kept.val))
            /\ last' = [NoCall EXCEPT !.op = "prune", !.arg = tree.of, !.err = r.err,
                                      !.ret = tree.val]
    IN  /\ tree.of # None
        /\ Then(remove_unused_components(tree.val))
        /\ UNCHANGED <<world, mapping, cls, kept, nreg>>

\* tree.of(**tree) for a class, with run_auto_creation in __post_init__
Construct ==
    LET Then(r) ==
            /\ cls' = r.ms.cls
            /\ heap' = Collect(r.ms.heap, Ids(tree.val) \cup Ids(kept.val))
            /\ last' = [NoCall EXCEPT !.op = "construct", !.arg = tree.of, !.err = r.err,
                                      !.warns = r.ms.warns, !.log = r.ms.log, !.ret = r.val,
                                      !.newly = NewlySealed(r.ms.cls)]
    IN  /\ tree.of \in Classes
        /\ Then(New(Machine, mapping, tree.of, tree.val, 0))
        /\ UNCHANGED <<world, mapping, tree, kept, nreg>>

\* the names a caller looks up or selects
NamesOf(w) == {ClassName(c) : c \in RegisteredIn(w)}

Next ==
    \/ \E c \in RegisteredIn(world) : Register(c)
    \/ \E c \in TargetsOf(world) : ExpandArgsFields(c)
    \/ \E c \in TargetsOf(world) \cup CallablesOf(world) : GetDefaultArgs(c)
    \/ \E place \in Places(tree.val), name \in NamesOf(world) : SetClassType(place, name)
    \/ \E i \in 1..Len(tree.val) : AppendTo(i)
    \/ RemoveUnusedComponents
    \/ Construct
    \/ \E base \in ClassesOf(world) \cup {"ReplaceableBase"}, name \in NamesOf(world) \cup {"Zed"} :
           world = "G" /\ Get(base, name)
    \/ \E base \in ClassesOf(world) \cup {"ReplaceableBase"} : world = "G" /\ GetAll(base)

Spec == Init /\ [][Next]_vars

(***************************************************************************)
(* Properties                                                              *)
(***************************************************************************)
\* The namespace root of a class: the class itself or the ancestor of it that
\* is a direct subclass of ReplaceableBase; None when there is none.
NamespaceRoot(c) ==
    LET roots == {r \in Range(Mro(c)) : Parent(r) = "ReplaceableBase"}
    IN  IF roots = {} THEN None ELSE CHOOSE r \in roots : TRUE

\* C3: registry.get(base, name) returns the type stored under name in the
\* namespace of base's root when that type is a subtype of base, and raises a
\* configuration error in every other case: no root for base, no entry for
\* name, or a stored type that is not a subtype of base.
C3_GetReturnsOrRaises ==
    last.op = "get" =>
        LET root == NamespaceRoot(last.arg)
            found == root # None /\ HasKey(mapping[root], last.name)
        IN  IF found /\ IsSubclass(Lookup(mapping[root], last.name).v, last.arg)
            THEN last.err = "ok" /\ last.ret = Lookup(mapping[root], last.name).v
            ELSE /\ last.err \in ConfigErrors
                 /\ last.err = (IF root = None THEN "CannotTell"
                                ELSE IF ~found THEN "NotRegistered" ELSE "NotSubclass")

\* a lookup through a base that is not a namespace root has found a type, and
\* the namespace holds a type that the same lookup would refuse
C3_Witness ==
    /\ last.op = "get" /\ last.err = "ok"
    /\ ~_is_base_class(last.arg)
    /\ \E i \in 1..Len(mapping[NamespaceRoot(last.arg)]) :
           ~IsSubclass(mapping[NamespaceRoot(last.arg)][i].v, last.arg)

\* C4: no registry entry stores a type under its own namespace root.  A
\* register(T) call raises and leaves the registry as it is when T is a
\* namespace root or has no namespace root among its ancestors; otherwise it
\* stores T under T's class name in the namespace of T's root and changes no
\* other entry.
C4_RegisterNeverStoresRoot ==
    [][nreg' = nreg + 1 =>
        LET T == last'.arg
            root == NamespaceRoot(T)
        IN  /\ last'.op = "register"
            /\ \A r \in Classes : \A i \in 1..Len(mapping'[r]) : mapping'[r][i].v # r
            /\ IF root = None \/ root = T
               THEN last'.err \in ConfigErrors /\ mapping' = mapping
               ELSE /\ last'.err = "ok"
                    /\ Lookup(mapping'[root], ClassName(T)).v = T
                    /\ \A r \in Classes \ {root} : mapping'[r] = mapping[r]
                    /\ \A i \in 1..Len(mapping[root]) :
                           mapping[root][i].k # ClassName(T)
                               => mapping'[root][i] = mapping[root][i]
                    /\ Len(mapping'[root]) =
                           Len(mapping[root]) + (IF HasKey(mapping[root], ClassName(T)) THEN 0 ELSE 1)
    ]_vars

\* a namespace root was refused after an implementation of it was stored
C4_Witness ==
    /\ last.op = "register" /\ last.err = "RegisterBaseClass"
    /\ mapping[last.arg] # <<>>

\* the names classes go by
AllNames == {ClassName(c) : c \in Classes}

\* no expansion of a class of this run has raised
NoFailure == \A c \in ClassesOf(world) : ~cls[c].failed

\* C8: expand_args_fields on a class that is sealed already returns without
\* an error and changes no class: the fields, the creation steps, the
\* transformed members and the known implementations of every class are
\* after the call what they were before, whatever the registry holds by then.
C8_ExpandSealedChangesNothing ==
    [][(last'.op = "expand" /\ cls[last'.arg].sealed)
          => (last'.err = "ok" /\ last'.warns = <<>> /\ cls' = cls)]_vars

\* a class with a pluggable member was expanded again after the registry had
\* changed since it was sealed
C8_Witness ==
    /\ last.op = "expand" /\ last.pre
    /\ cls[last.arg].pm # {}
    /\ mapping # cls[last.arg].reg

\* the variants of the member a class-type key names: the keys m_<I>_args
VariantKey(type_key, name) ==
    DropLast(type_key, Len(TYPE_SUFFIX)) \o "_" \o name \o ARGS_SUFFIX

RECURSIVE NoInactiveVariant(_)
NoInactiveVariant(t) ==
    /\ \A i \in 1..Len(t) :
           EndsWith(t[i].k, TYPE_SUFFIX) =>
               \A I \in AllNames \ {t[i].v} : ~HasKey(t, VariantKey(t[i].k, I))
    /\ \A i \in 1..Len(t) : t[i].t = "tree" => NoInactiveVariant(t[i].v)

\* C7: after remove_unused_components(tree), for each key m_class_type with
\* value s in the tree or in a subtree of it, no sibling key m_<I>_args with I
\* other than s is left; in Scenario A with a_class_type = "A2" the call
\* deletes a_A1_args and nothing else.
C7_NoInactiveVariantLeft ==
    last.op = "prune" =>
        /\ NoInactiveVariant(tree.val)
        /\ (last.arg = "B" /\ HasKey(last.ret, "a_A1_args")
                /\ Lookup(last.ret, "a_class_type").v = "A2")
             => tree.val = Del(last.ret, "a_A1_args")

\* the ancestors of a class that are classes of the program, root-most first
RECURSIVE Reverse(_)
Reverse(s) == IF s = <<>> THEN <<>> ELSE Append(Reverse(Tail(s)), Head(s))

Ancestors(c) == Reverse(SelectSeq(Tail(Mro(c)), LAMBDA b : b \in Classes))

RECURSIVE Concat(_)
Concat(ss) == IF ss = <<>> THEN <<>> ELSE Head(ss) \o Concat(Tail(ss))

\* the creation steps of the members a class declares, in declaration order
OwnSteps(c) ==
    LET members == SelectSeq(Declared(c),
                       LAMBDA e : e.kind = "member"
                                  /\ (Parent(e.ty) = "ReplaceableBase"
                                      \/ IsSubclass(e.ty, "Configurable")))
    IN  [i \in 1..Len(members) |-> "create_" \o members[i].k]

\* the creation steps run_auto_creation has invoked on the instance itself
StepsInvoked ==
    LET top == SelectSeq(last.log, LAMBDA x : x.d = 0)
    IN  [i \in 1..Len(top) |-> top[i].f]

\* C10: the creation steps recorded on a sealed class are those of its
\* ancestors, root-most ancestor first, followed by the class's own steps in
\* the order its members are declared; run_auto_creation invokes the steps in
\* the recorded order, none before one that precedes it in the list, and all of
\* them when it returns.
C10_CreationOrder ==
    /\ \A c \in ClassesOf(world) :
           (cls[c].sealed /\ \A b \in Range(Mro(c)) \cap Classes : ~cls[b].failed)
               => cls[c].cf = Concat([i \in 1..Len(Ancestors(c)) |-> cls[Ancestors(c)[i]].cf])
                                  \o OwnSteps(c)
    /\ last.op = "construct" =>
           /\ Len(StepsInvoked) <= Len(cls[last.arg].cf)
           /\ StepsInvoked = SubSeq(cls[last.arg].cf, 1, Len(StepsInvoked))
           /\ last.err = "ok" => StepsInvoked = cls[last.arg].cf

\* an instance of a class with steps of its own and steps of an ancestor was
\* constructed
C10_Witness ==
    /\ last.op = "construct" /\ last.err = "ok"
    /\ Len(OwnSteps(last.arg)) > 1
    /\ \E b \in Range(Ancestors(last.arg)) : cls[b].cf # <<>>
    /\ StepsInvoked = cls[last.arg].cf

\* the members a class declares with a namespace root as their type, and
\* those it declares with a Configurable as their type
PluggableMembers(c) ==
    {e \in Range(Declared(c)) : e.kind = "member" /\ Parent(e.ty) = "ReplaceableBase"}

FixedMembers(c) ==
    {e \in Range(Declared(c)) : e.kind = "member" /\ IsSubclass(e.ty, "Configurable")}

\* the implementations a member of type R of class c gets a field for: those
\* registered in R's namespace when c was sealed, but for c, its subclasses
\* and the classes being expanded then
ImplementationsFor(c, R) ==
    {I \in Range(cls[c].reg[R]) : I.v \notin Range(cls[c].dnp) /\ ~IsSubclass(I.v, c)}

\* the fields m_<I>_args of class c
VariantFields(c, m) ==
    {f \in Range(cls[c].fields) :
        f.kind = "args" /\ \E n \in AllNames : f.k = m \o "_" \o n \o ARGS_SUFFIX}

\* the tree t holds under the key of field f what get_default_args(f.target)
\* returns now
HoldsDefaultTree(t, f) ==
    LET Same(r) == r.err = "ok" /\ HasKey(t, f.k) /\ Lookup(t, f.k) = Sub(f.k, r.val)
    IN  Same(get_default_args(Machine, mapping, f.target, <<>>, 0))

\* get_default_args raises for the target of a generated field of class c
SomeDefaultTreeFails(c) ==
    \E f \in Range(cls[c].fields) :
        f.kind = "args" /\ get_default_args(Machine, mapping, f.target, <<>>, 0).err # "ok"

DeclaredKeys(c) ==
    UNION {IF e \in FixedMembers(c) THEN {e.k \o ARGS_SUFFIX}
           ELSE IF e \in PluggableMembers(c)
           THEN {e.k \o TYPE_SUFFIX}
                    \cup {e.k \o "_" \o I.k \o ARGS_SUFFIX : I \in ImplementationsFor(c, e.ty)}
           ELSE {e.k}
           : e \in Range(Declared(c))}

InheritedKeys(c) ==
    UNION {Range(Keys(cls[b].fields)) : b \in Range(Tail(Mro(c))) \cap Classes}

\* the instance was constructed from the arguments args
BuiltFrom(inst, args) ==
    \A i \in 1..Len(args) :
        HasKey(inst.attrs, args[i].k) /\ Lookup(inst.attrs, args[i].k) = args[i]

\* C9: a sealed class C that declares a member m of a type T that is a
\* Configurable has no field m and has, for m, the one field m_args, whose
\* default is get_default_args(T): get_default_args(C) holds under m_args what
\* get_default_args(T) returns, and raises only when get_default_args raises
\* for the target of a generated field of C.  When run_auto_creation on an
\* instance of C returns, m is an instance of T constructed from the
\* instance's m_args.
C9_FixedMemberField ==
    /\ \A c \in ClassesOf(world) :
         (cls[c].sealed /\ FixedMembers(c) # {}
            /\ \A b \in Range(Mro(c)) \cap Classes : ~cls[b].failed) =>
            /\ Range(Keys(cls[c].fields)) = InheritedKeys(c) \cup DeclaredKeys(c)
            /\ \A e \in FixedMembers(c) :
                 /\ ~HasKey(cls[c].fields, e.k)
                 /\ Cardinality({i \in 1..Len(cls[c].fields) :
                                    cls[c].fields[i].k = e.k \o ARGS_SUFFIX}) = 1
                 /\ Lookup(cls[c].fields, e.k \o ARGS_SUFFIX).kind = "args"
                 /\ Lookup(cls[c].fields, e.k \o ARGS_SUFFIX).target = e.ty
    /\ (last.op = "get_default_args" /\ NoFailure /\ FixedMembers(last.arg) # {}) =>
           IF last.err = "ok"
           THEN \A e \in FixedMembers(last.arg) :
                    HoldsDefaultTree(tree.val, Lookup(cls[last.arg].fields, e.k \o ARGS_SUFFIX))
           ELSE SomeDefaultTreeFails(last.arg)
    /\ (last.op = "construct" /\ last.err = "ok" /\ NoFailure) =>
           \A b \in Range(Mro(last.arg)) \cap Classes : \A e \in FixedMembers(b) :
               /\ HasKey(last.ret.attrs, e.k)
               /\ Lookup(last.ret.attrs, e.k).t = "obj"
               /\ Lookup(last.ret.attrs, e.k).v.cls = e.ty
               /\ BuiltFrom(Lookup(last.ret.attrs, e.k).v,
                            Lookup(last.ret.attrs, e.k \o ARGS_SUFFIX).v)

\* an instance with a fixed member was constructed from a tree in which the
\* member's arguments are not the defaults
C9_Witness ==
    /\ last.op = "construct" /\ last.err = "ok" /\ NoFailure
    /\ \E e \in FixedMembers(last.arg) :
           ~HoldsDefaultTree(tree.val, Lookup(cls[last.arg].fields, e.k \o ARGS_SUFFIX))

\* the types of the fixed-configurable members a class has, declared or
\* inherited, and the classes reached from it through such members
MemberTypes(c) ==
    UNION {{e.ty : e \in FixedMembers(b)} : b \in Range(Mro(c)) \cap Classes}

RECURSIVE ReachedFrom(_, _)
ReachedFrom(frontier, seen) ==
    LET more == UNION {MemberTypes(c) : c \in frontier} \ seen
    IN  IF more = {} THEN seen ELSE ReachedFrom(more, seen \cup more)

\* the class has, directly or through a chain of fixed-configurable members,
\* a member of its own type
Cyclic(c) == c \in ReachedFrom({c}, {})

\* C5: for a class that has, directly or through a chain of fixed-configurable
\* members (inherited ones included), a member of its own type,
\* get_default_args ends in a configuration error, whichever classes were
\* expanded before the call and in whatever order, as long as no expansion has
\* raised before.
C5_CycleRaisesConfigurationError ==
    (last.op = "get_default_args" /\ Cyclic(last.arg) /\ NoFailure)
        => last.err \in ConfigErrors

\* the staleness warning of inner_pluggable
Diagnostic(n) == "New implementation of " \o n \o " is being chosen."

\* the value of the instance's or the tree's m_class_type
Selected(attrs, e) == Lookup(attrs, e.k \o TYPE_SUFFIX).v

\* C2: when the instance of a sealed class C (no expansion has raised) was
\* constructed from a tree t
\* that get_default_args(C) returned, in which the class types were set and
\* which remove_unused_components has pruned, then for each pluggable member m
\* of C whose t.m_class_type is the name n of an implementation that m's
\* namespace held when C was sealed, m is an instance of the type the registry
\* holds under n, and it is built from the t.m_<n>_args that t holds.
C2_RoundTrip ==
    (last.op = "construct" /\ last.err = "ok" /\ tree.stage = "pruned" /\ NoFailure) =>
        \A e \in PluggableMembers(last.arg) :
            LET n == Selected(tree.val, e)
                args_name == e.k \o "_" \o n \o ARGS_SUFFIX
            IN  HasKey(cls[last.arg].reg[e.ty], n) =>
                    /\ HasKey(last.ret.attrs, e.k)
                    /\ Lookup(last.ret.attrs, e.k).t = "obj"
                    /\ Lookup(last.ret.attrs, e.k).v.cls = Lookup(mapping[e.ty], n).v
                    /\ HasKey(tree.val, args_name)
                    /\ BuiltFrom(Lookup(last.ret.attrs, e.k).v, Lookup(tree.val, args_name).v)

\* name n of member e of the class of the instance is stale: the namespace
\* held another type under n when the class was sealed
Stale(e, n) ==
    /\ HasKey(cls[last.arg].reg[e.ty], n)
    /\ HasKey(mapping[e.ty], n)
    /\ Lookup(mapping[e.ty], n).v # Lookup(cls[last.arg].reg[e.ty], n).v

\* m was created as an instance of the type the registry holds under n, from
\* the instance's m_<n>_args
CreatedFromNew(e, n) ==
    /\ HasKey(last.ret.attrs, e.k)
    /\ Lookup(last.ret.attrs, e.k).t = "obj"
    /\ Lookup(last.ret.attrs, e.k).v.cls = Lookup(mapping[e.ty], n).v
    /\ HasKey(last.ret.attrs, e.k \o "_" \o n \o ARGS_SUFFIX)
    /\ BuiltFrom(Lookup(last.ret.attrs, e.k).v,
                 Lookup(last.ret.attrs, e.k \o "_" \o n \o ARGS_SUFFIX).v)

\* C6 as stated: when class C with pluggable member m was sealed while name n
\* mapped to T in m's namespace and another type T' was registered under n
\* since, run_auto_creation on an instance of C whose m_class_type is n emits
\* the staleness diagnostic and, when it returns, has constructed m as an
\* instance of T' from m_<n>_args.
C6_DiagnosticOnEveryChange ==
    last.op = "construct" =>
        \A e \in PluggableMembers(last.arg) :
            (HasKey(last.ret.attrs, e.k \o TYPE_SUFFIX)
                /\ Stale(e, Selected(last.ret.attrs, e))) =>
                /\ Diagnostic(Selected(last.ret.attrs, e)) \in Range(last.warns)
                /\ last.err = "ok" => CreatedFromNew(e, Selected(last.ret.attrs, e))

\* what T'(**args) does on its own now: the error of expanding T' or of
\* constructing it from the instance's m_<n>_args
ConstructionAlone(e, n) ==
    LET T == Lookup(mapping[e.ty], n).v
        Then(x) ==
            IF x.err # "ok" THEN x.err
            ELSE New(x.ms, mapping, T,
                     Lookup(last.ret.attrs, e.k \o "_" \o n \o ARGS_SUFFIX).v, 1).err
    IN  Then(expand_args_fields(Machine, mapping, T, <<>>))

\* C6: when class C with pluggable member m was sealed while name n mapped to
\* T in m's namespace, n is among the implementations C recorded then, and
\* another type T' was registered under n since, the creation step of m on an
\* instance of C whose m_class_type is n emits the staleness diagnostic and
\* goes on to call T' with m_<n>_args: it raises what that call raises, and
\* when run_auto_creation returns m is an instance of T' built from
\* m_<n>_args.
C6_DiagnosticForKnownImplementation ==
    last.op = "construct" =>
        \A e \in PluggableMembers(last.arg) :
            (/\ HasKey(last.ret.attrs, e.k \o TYPE_SUFFIX)
             /\ Stale(e, Selected(last.ret.attrs, e))
             /\ HasKey(cls[last.arg].ki, Selected(last.ret.attrs, e))
             /\ "create_" \o e.k \in Range(StepsInvoked)) =>
                /\ Diagnostic(Selected(last.ret.attrs, e)) \in Range(last.warns)
                /\ ConstructionAlone(e, Selected(last.ret.attrs, e)) # "ok"
                       => last.err = ConstructionAlone(e, Selected(last.ret.attrs, e))
                /\ last.err = "ok" => CreatedFromNew(e, Selected(last.ret.attrs, e))

\* the diagnostic was emitted and the member created from the new type
C6_Witness ==
    /\ last.op = "construct" /\ last.err = "ok"
    /\ \E e \in PluggableMembers(last.arg) :
           /\ Stale(e, Selected(last.ret.attrs, e))
           /\ HasKey(cls[last.arg].ki, Selected(last.ret.attrs, e))
           /\ Diagnostic(Selected(last.ret.attrs, e)) \in Range(last.warns)
           /\ CreatedFromNew(e, Selected(last.ret.attrs, e))

\* the types a namespace holds
Registered(root) == {mapping[root][i].v : i \in 1..Len(mapping[root])}

\* C11 as stated: get_all(base) returns the types registered in the namespace
\* of base's root that are subtypes of base, base itself included, and are not
\* the root; it raises a configuration error when base has no namespace root.
C11_GetAllReflexive ==
    last.op = "get_all" =>
        LET root == NamespaceRoot(last.arg)
        IN  IF root = None THEN last.err \in ConfigErrors
            ELSE /\ last.err = "ok"
                 /\ Range(last.ret) = {c \in Registered(root) : IsSubclass(c, last.arg) /\ c # root}

\* C11: get_all(base) returns the types registered in the namespace of base's
\* root that are subtypes of base other than base itself, each of them once; it
\* raises a configuration error when base has no namespace root.
C11_GetAllStrictSubtypes ==
    last.op = "get_all" =>
        LET root == NamespaceRoot(last.arg)
        IN  IF root = None THEN last.err \in ConfigErrors
            ELSE /\ last.err = "ok"
                 /\ Range(last.ret) = {c \in Registered(root) : IsSubclass(c, last.arg) /\ c # last.arg}
                 /\ Cardinality(Range(last.ret)) = Len(last.ret)

\* get_all through a base that is registered itself has returned a subtype of
\* it and left out the base
C11_Witness ==
    /\ last.op = "get_all" /\ last.err = "ok"
    /\ last.arg \in Registered(NamespaceRoot(last.arg))
    /\ last.ret # <<>>
    /\ last.arg \notin Range(last.ret)

\* the roots of the namespaces
Roots == {r \in Classes : _is_base_class(r)}

\* C12: a register call for a type of root R1 leaves get(b, n) and get_all(b)
\* as they were for every base b of another root and every name n; what get
\* returns is of the hierarchy of the base it was asked through; and when two
\* roots hold a type each under the same name, get yields each through its own
\* root and through no base of the other hierarchy.
C12_NamespaceIsolation ==
    [][/\ nreg' = nreg + 1 =>
            \A b \in ClassesOf(world) :
                NamespaceRoot(b) # NamespaceRoot(last'.arg) =>
                    /\ RegistryGetAll(mapping', b) = RegistryGetAll(mapping, b)
                    /\ \A n \in NamesOf(world) :
                          RegistryGet(mapping', b, n) = RegistryGet(mapping, b, n)
       /\ (last'.op = "get" /\ last'.err = "ok") =>
            /\ NamespaceRoot(last'.ret) = NamespaceRoot(last'.arg)
            /\ \A r1, r2 \in Roots \cap ClassesOf(world) :
                  (r1 # r2 /\ HasKey(mapping'[r1], last'.name) /\ HasKey(mapping'[r2], last'.name)) =>
                      /\ RegistryGet(mapping', r1, last'.name).val = Lookup(mapping'[r1], last'.name).v
                      /\ RegistryGet(mapping', r2, last'.name).val = Lookup(mapping'[r2], last'.name).v
                      /\ \A b \in ClassesOf(world) :
                            NamespaceRoot(b) # r1 =>
                                RegistryGet(mapping', b, last'.name).val
                                    # Lookup(mapping'[r1], last'.name).v
    ]_vars

\* a name that two namespaces hold was looked up
C12_Witness ==
    /\ last.op = "get" /\ last.err = "ok"
    /\ \E r \in Roots \ {NamespaceRoot(last.arg)} :
           /\ HasKey(mapping[r], last.name)
           /\ Lookup(mapping[r], last.name).v # last.ret

\* C19: a register call for a type T whose name the namespace of T's root
\* holds for another type raises no error and leaves the namespace with as
\* many entries as before; afterwards get yields T for that name, get_all
\* yields T, and neither yields the earlier type, through whatever base.
C19_SameNameOverwrites ==
    [][(nreg' = nreg + 1 /\ NameTaken(last'.arg)) =>
          LET T == last'.arg
              root == NamespaceRoot(T)
              n == ClassName(T)
              earlier == Lookup(mapping[root], n).v
          IN  /\ last'.err = "ok"
              /\ Len(mapping'[root]) = Len(mapping[root])
              /\ RegistryGet(mapping', root, n) = [err |-> "ok", val |-> T]
              /\ T \in Range(RegistryGetAll(mapping', root).val)
              /\ \A b \in ClassesOf(world) :
                    /\ RegistryGet(mapping', b, n).val # earlier
                    /\ earlier \notin Range(RegistryGetAll(mapping', b).val)
    ]_vars

\* a type was registered under a name the namespace held for another type
C19_Witness ==
    /\ last.op = "register" /\ last.pre /\ last.err = "ok"
    /\ Lookup(mapping[NamespaceRoot(last.arg)], ClassName(last.arg)).v = last.arg

\* the creation function class c has for member m, its own or an inherited one
CreatorOf(c, m) == GetCreator(Machine, c, "create_" \o m)

\* C13: in a sealed class (no expansion of it has raised) every declared
\* member whose type is a subclass of Configurable or of ReplaceableBase is a
\* transformed member and no field: when its type is a direct child of
\* ReplaceableBase it has the field m_class_type and a pluggable creation step,
\* otherwise the field m_args for its type and a fixed creation step; every
\* other declared field stays the field it was declared as and is no
\* transformed member.
C13_EveryMarkerMemberTransformed ==
    \A c \in ClassesOf(world) : (cls[c].sealed /\ ~cls[c].failed) =>
        \A e \in Range(Declared(c)) :
            IF e.kind = "member" /\ _is_configurable_class(e.ty)
            THEN /\ e.k \in cls[c].pm
                 /\ ~HasKey(cls[c].fields, e.k)
                 /\ HasCreator(Machine, c, "create_" \o e.k)
                 /\ IF Parent(e.ty) = "ReplaceableBase"
                    THEN /\ HasKey(cls[c].fields, e.k \o TYPE_SUFFIX)
                         /\ CreatorOf(c, e.k).pluggable
                    ELSE /\ HasKey(cls[c].fields, e.k \o ARGS_SUFFIX)
                         /\ Lookup(cls[c].fields, e.k \o ARGS_SUFFIX).target = e.ty
                         /\ ~CreatorOf(c, e.k).pluggable
            ELSE /\ e.k \notin cls[c].pm
                 /\ HasKey(cls[c].fields, e.k)
                 /\ Lookup(cls[c].fields, e.k) = e

\* the field names the expansion of class c generates for its members, with
\* the registry as it is
GeneratedNames(c) ==
    UNION {IF Parent(e.ty) = "ReplaceableBase"
           THEN {e.k \o "_" \o ClassName(I) \o ARGS_SUFFIX :
                     I \in {J \in Registered(e.ty) : ~IsSubclass(J, c)}}
           ELSE {e.k \o ARGS_SUFFIX}
           : e \in PluggableMembers(c) \cup FixedMembers(c)}

\* a generated field name of class c is a field c declares or, with the
\* classes as in k, a field of an ancestor of c
Collides(c, k) ==
    \E n \in GeneratedNames(c) :
        \/ HasKey(Declared(c), n)
        \/ \E b \in Range(Tail(Mro(c))) \cap Classes : HasKey(k[b].fields, n)

\* C14: expand_args_fields on a class that is not sealed and none of whose
\* expansions has raised before raises a configuration error when a field
\* name it generates is a field the class declares or inherits.
C14_CollisionIsFatal ==
    [][(/\ last'.op = "expand"
        /\ ~cls[last'.arg].sealed /\ ~cls[last'.arg].failed
        /\ Collides(last'.arg, cls')) => last'.err \in ConfigErrors]_vars

\* C15: a class whose expansion raises a configuration error is left
\* unsealed: it is no dataclass and holds no creation steps, no transformed
\* members and no known implementations; expand_args_fields(C) that raises a
\* configuration error leaves C so, and so is every class that is not sealed.
C15_FailedExpansionLeavesUnsealed ==
    [][/\ \A c \in ClassesOf(world) :
            (last'.err \in ConfigErrors /\ cls'[c].failed /\ ~cls[c].failed)
                => ~cls'[c].sealed
       /\ (last'.op = "expand" /\ last'.err \in ConfigErrors) => ~cls'[last'.arg].sealed
       /\ \A c \in ClassesOf(world) :
            ~cls'[c].sealed =>
                /\ cls'[c].fields = <<>>
                /\ cls'[c].cf = <<>>
                /\ cls'[c].pm = {}
                /\ cls'[c].ki = <<>>
    ]_vars

\* expand_args_fields has raised a configuration error after it had begun to
\* transform the members of the class
C15_Witness ==
    /\ last.op = "expand" /\ last.err \in ConfigErrors
    /\ cls[last.arg].failed /\ ~cls[last.arg].sealed
    /\ cls[last.arg].ann # Declared(last.arg)

\* every transformed member of the inheritance chain of class c is declared
\* in one class of the chain only
DeclaredOnce(c) ==
    \A b1, b2 \in Range(Mro(c)) \cap Classes :
        b1 # b2 => Range(OwnSteps(b1)) \cap Range(OwnSteps(b2)) = {}

NoDuplicate(seq) == \A i, j \in 1..Len(seq) : seq[i] = seq[j] => i = j

\* C20: a sealed class (no expansion in its chain has raised) whose
\* transformed members are each declared in one class of its inheritance chain
\* holds every creation step once; expanding such a class emits no
\* duplicate-step diagnostic, and run_auto_creation on an instance of it
\* invokes every step once.
C20_EachStepOnce ==
    /\ \A c \in ClassesOf(world) :
           (/\ cls[c].sealed /\ DeclaredOnce(c)
            /\ \A b \in Range(Mro(c)) \cap Classes : ~cls[b].failed)
               => NoDuplicate(cls[c].cf)
    /\ (NoFailure /\ \A c \in last.newly : DeclaredOnce(c)) =>
           \A i \in 1..Len(last.warns) : ~StartsWith(last.warns[i], "Clash with ")
    /\ (last.op = "construct" /\ last.err = "ok" /\ NoFailure /\ DeclaredOnce(last.arg))
           => NoDuplicate(StepsInvoked)

\* the parameters of a function that have a default
WithDefault(f) == SelectSeq(Parameters(f), LAMBDA q : q.has)

\* the value of a default, a list by its items in heap h
DefaultValue(h, q) == IF q.t = "list" THEN h[q.v].items ELSE q.v

DefaultsOf(f, h) == [i \in 1..Len(Parameters(f)) |-> DefaultValue(h, Parameters(f)[i])]

\* C17 as stated: get_default_args(target) leaves the target as it was: a
\* class with its fields, its sealed status and its bookkeeping, a function
\* with its defaults.
C17_NeverMutatesTarget ==
    [][last'.op = "get_default_args" =>
          IF last'.arg \in Functions
          THEN DefaultsOf(last'.arg, heap') = DefaultsOf(last'.arg, heap)
          ELSE cls'[last'.arg] = cls[last'.arg]]_vars

\* C17: get_default_args(target) leaves a function with its defaults and a
\* class that is sealed as it was; a class that is not sealed it leaves as
\* expand_args_fields(target) leaves it.
C17_SealedTargetUnchanged ==
    [][last'.op = "get_default_args" =>
          IF last'.arg \in Functions
          THEN DefaultsOf(last'.arg, heap') = DefaultsOf(last'.arg, heap)
          ELSE IF cls[last'.arg].sealed
          THEN cls'[last'.arg] = cls[last'.arg]
          ELSE cls'[last'.arg]
                   = expand_args_fields(Machine, mapping, last'.arg, <<>>).ms.cls[last'.arg]]_vars

\* get_default_args on a sealed class has returned and has sealed other
\* classes
C17_Witness ==
    /\ last.op = "get_default_args" /\ last.pre /\ last.err = "ok"
    /\ last.newly # {}

\* get_default_args on the target of the caller's tree returns now a tree
\* equal to the one it returned then
ReturnsTheSame ==
    LET Again(r) == r.err = "ok" /\ Deref(r.ms.heap, r.val) = tree.orig
    IN  Again(get_default_args(Machine, mapping, tree.of, <<>>, 0))

\* C18: the tree get_default_args returned and the tree it returned before
\* share no object with each other or with a default; an edit or a pruning of
\* the one leaves the other, the defaults and the classes as they were; and a
\* later get_default_args on the same target returns a tree equal to the one
\* it returned, whatever was edited, pruned or registered since.
C18_FreshTrees ==
    /\ [](/\ Ids(tree.val) \cap Ids(kept.val) = {}
          /\ (Ids(tree.val) \cup Ids(kept.val)) \cap DefaultObjects = {}
          /\ tree.of # None => ReturnsTheSame)
    /\ [][last'.op \in {"append", "set", "prune"} =>
              /\ kept' = kept
              /\ Deref(heap', kept.val) = Deref(heap, kept.val)
              /\ \A id \in DefaultObjects : heap'[id] = heap[id]
              /\ cls' = cls]_vars

\* a list of the tree was edited while the caller holds the tree the same
\* function returned before, and that one is as it was returned
C18_Witness ==
    /\ last.op = "append"
    /\ kept.of = tree.of
    /\ Ids(tree.val) # {} /\ Ids(kept.val) # {}
    /\ Deref(heap, tree.val) # tree.orig
    /\ Deref(heap, kept.val) = tree.orig

\* the key is that of a variant m_<I>_args of a member m of tree t that t's
\* m_class_type does not select, and of no variant that a class type of t
\* selects
InactiveVariant(t, key) ==
    /\ \E j \in 1..Len(t) :
           /\ EndsWith(t[j].k, TYPE_SUFFIX)
           /\ \E I \in AllNames \ {t[j].v} : key = VariantKey(t[j].k, I)
    /\ \A j \in 1..Len(t) :
           EndsWith(t[j].k, TYPE_SUFFIX) => key # VariantKey(t[j].k, t[j].v)

\* what tree before has and tree after has not is an inactive variant, and
\* what both have is the same but for such deletions inside it
RECURSIVE OnlyInactiveDeleted(_, _)
OnlyInactiveDeleted(before, after) ==
    \A i \in 1..Len(before) :
        IF ~HasKey(after, before[i].k) THEN InactiveVariant(before, before[i].k)
        ELSE IF before[i].t = "tree"
        THEN /\ Lookup(after, before[i].k).t = "tree"
             /\ OnlyInactiveDeleted(before[i].v, Lookup(after, before[i].k).v)
        ELSE Lookup(after, before[i].k) = before[i]

\* C21: remove_unused_components deletes nothing but inactive variants: what
\* the tree held before the call and does not hold after it is, at every
\* level, a subtree m_<I>_args with I another name than the value of
\* m_class_type, and never the m_<I>_args that a class type of the same level
\* selects, whatever the names of the members are; every other entry is after
\* the call what it was.
C21_DeletesOnlyInactiveVariants ==
    last.op = "prune" => OnlyInactiveDeleted(last.ret, tree.val)

\* no type was registered since a class of this run was sealed: every sealed
\* class was sealed with the registry as it is
NoRegisterSinceSealed == \A c \in ClassesOf(world) : cls[c].sealed => cls[c].reg = mapping

\* C22: when no type was registered since the classes were sealed (and no
\* expansion has raised), constructing an instance, which runs
\* run_auto_creation on it, emits no staleness diagnostic, whatever names the
\* implementations of the pluggable members go by.
C22_NoDiagnosticWithoutRegister ==
    (last.op = "construct" /\ NoRegisterSinceSealed /\ NoFailure) =>
        \A i \in 1..Len(last.warns) : ~StartsWith(last.warns[i], "New implementation of ")

\* C23: expand_args_fields or get_default_args on a class that is not sealed
\* and whose last expansion raised a configuration error raises that error
\* again and leaves the class unsealed.
C23_FailedExpansionFailsAgain ==
    [][(/\ last'.op \in {"expand", "get_default_args"}
        /\ last'.arg \in Classes
        /\ ~cls[last'.arg].sealed
        /\ cls[last'.arg].raised \in ConfigErrors)
          => (last'.err = cls[last'.arg].raised /\ ~cls'[last'.arg].sealed)]_vars

\* get_default_args(X) and then get_default_args(Y), from the classes and the
\* registry as they are: what the calls raised, the trees they returned and
\* the names of the fields the two classes have afterwards
InOrder(X, Y) ==
    LET Both(r1, r2) ==
            [errs |-> <<r1.err, r2.err>>,
             first |-> r1.val,
             second |-> r2.val,
             names |-> [c \in {X, Y} |-> Keys(r2.ms.cls[c].fields)]]
        Then(r1) == Both(r1, get_default_args(r1.ms, mapping, Y, <<>>, 0))
    IN  Then(get_default_args(Machine, mapping, X, <<>>, 0))

\* the two orders raise nothing and differ in nothing
SameInEitherOrder(a, b) ==
    (a.errs = <<"ok", "ok">> /\ b.errs = <<"ok", "ok">>) =>
        /\ a.names = b.names
        /\ a.first = b.second
        /\ a.second = b.first

\* no class of this run has been expanded
NothingExpanded == \A c \in ClassesOf(world) : ~cls[c].sealed /\ ~cls[c].failed

\* C24: with the registry as it is and no class expanded yet, for any two
\* classes X and Y, get_default_args(X) followed by get_default_args(Y) leaves
\* X and Y with the same field names, and returns the same trees for them, as
\* get_default_args(Y) followed by get_default_args(X), when no call raises.
C24_OrderIndependent ==
    NothingExpanded =>
        \A X, Y \in TargetsOf(world) : SameInEitherOrder(InOrder(X, Y), InOrder(Y, X))

\* the creation function behind the i-th creation step of class c
StepCreator(c, i) == GetCreator(Machine, c, cls[c].cf[i])

\* the instance's class type for the pluggable member of the generated
\* creation function cr names no entry of the member's namespace
AbsentName(inst, cr) ==
    /\ cr.pluggable
    /\ ~cr.user
    /\ HasKey(inst.attrs, cr.member \o TYPE_SUFFIX)
    /\ ~HasKey(mapping[cr.ty], Lookup(inst.attrs, cr.member \o TYPE_SUFFIX).v)

\* the member of the i-th creation step of the instance's class is constructed
Constructed(inst, i) ==
    /\ HasKey(inst.attrs, StepCreator(inst.cls, i).member)
    /\ Lookup(inst.attrs, StepCreator(inst.cls, i).member).t = "obj"

\* C25: constructing an instance (no expansion has raised) whose
\* m_class_type, "UNDEFAULTED" or another name, has no entry in the namespace
\* of m, a member with a generated creation step,
\* raises, leaves m unassigned and invokes no creation step after m's; when
\* run_auto_creation comes to m's creation step, the call raises the
\* name-absent configuration error and the members of the steps before m's
\* are constructed.
C25_AbsentNameRaises ==
    (last.op = "construct" /\ NoFailure) =>
        \A i \in 1..Len(cls[last.arg].cf) :
            AbsentName(last.ret, StepCreator(last.arg, i)) =>
                /\ last.err # "ok"
                /\ ~HasKey(last.ret.attrs, StepCreator(last.arg, i).member)
                /\ Len(StepsInvoked) <= i
                /\ Len(StepsInvoked) = i =>
                      /\ last.err = "NotRegistered"
                      /\ StepsInvoked = SubSeq(cls[last.arg].cf, 1, i)
                      /\ \A j \in 1..(i - 1) : Constructed(last.ret, j)

\* run_auto_creation has raised at a step with an absent name that has a
\* constructed member before it and a step after it
C25_Witness ==
    /\ last.op = "construct" /\ last.err = "NotRegistered" /\ NoFailure
    /\ \E i \in 2..(Len(cls[last.arg].cf) - 1) :
           /\ AbsentName(last.ret, StepCreator(last.arg, i))
           /\ Len(StepsInvoked) = i
           /\ Constructed(last.ret, i - 1)

\* the classes of the inheritance chain of c, c first, that define create_<m>
DefinersOf(c, m) ==
    SelectSeq(Mro(c), LAMBDA b : b \in Classes /\ HasKey(DefinedCreators(b), "create_" \o m))

\* the members class c declares that are transformed and for which c or an
\* ancestor of c defines the creation function
UserCreatedMembers(c) ==
    {e \in PluggableMembers(c) \cup FixedMembers(c) : DefinersOf(c, e.k) # <<>>}

\* C26: in a sealed class C (no expansion in its chain has raised), for a
\* transformed member m whose create_<m> C or an ancestor of C defines: the
\* function C has under create_<m> is the defined one, the nearest in the
\* chain, and C holds no generated one; C has the generated fields of m (m_args
\* for m's type, or m_class_type and one m_<I>_args for every implementation
\* as for any pluggable member) and no field m; create_<m> is in C's creation
\* steps at the place of m among the declared members.  When constructing an
\* instance returns, the steps were invoked in that order and exactly the
\* members with a defined creation function carry what that function sets.
C26_UserCreationFunctionKept ==
    /\ \A c \in ClassesOf(world) :
           (cls[c].sealed /\ \A b \in Range(Mro(c)) \cap Classes : ~cls[b].failed) =>
               /\ cls[c].cf = Concat([i \in 1..Len(Ancestors(c)) |-> cls[Ancestors(c)[i]].cf])
                                  \o OwnSteps(c)
               /\ \A e \in UserCreatedMembers(c) :
                     /\ CreatorOf(c, e.k)
                            = Lookup(DefinedCreators(Head(DefinersOf(c, e.k))), "create_" \o e.k)
                     /\ HasKey(cls[c].creators, "create_" \o e.k)
                            => Lookup(cls[c].creators, "create_" \o e.k).user
                     /\ ~HasKey(cls[c].fields, e.k)
                     /\ IF e \in FixedMembers(c)
                        THEN /\ HasKey(cls[c].fields, e.k \o ARGS_SUFFIX)
                             /\ Lookup(cls[c].fields, e.k \o ARGS_SUFFIX).kind = "args"
                             /\ Lookup(cls[c].fields, e.k \o ARGS_SUFFIX).target = e.ty
                        ELSE /\ HasKey(cls[c].fields, e.k \o TYPE_SUFFIX)
                             /\ {<<f.k, f.target>> : f \in VariantFields(c, e.k)}
                                    = {<<e.k \o "_" \o I.k \o ARGS_SUFFIX, I.v>> :
                                           I \in ImplementationsFor(c, e.ty)}
    /\ (last.op = "construct" /\ last.err = "ok" /\ NoFailure) =>
           /\ StepsInvoked = cls[last.arg].cf
           /\ \A i \in 1..Len(cls[last.arg].cf) :
                  HasKey(last.ret.attrs, StepCreator(last.arg, i).member \o "_made")
                      <=> DefinersOf(last.arg, StepCreator(last.arg, i).member) # <<>>

\* an instance was constructed whose class has a step with its own defined
\* function, a step with a function an ancestor defines for a member the class
\* declares, a defined step for a pluggable member and a generated step
C26_Witness ==
    /\ last.op = "construct" /\ last.err = "ok" /\ NoFailure
    /\ \E e \in UserCreatedMembers(last.arg) : Head(DefinersOf(last.arg, e.k)) # last.arg
    /\ \E b \in Range(Mro(last.arg)) \cap Classes :
           /\ \E e \in UserCreatedMembers(b) \cap PluggableMembers(b) :
                  HasKey(last.ret.attrs, e.k \o "_made")
           /\ \E e \in UserCreatedMembers(b) \cap FixedMembers(b) :
                  Head(DefinersOf(b, e.k)) = b
    /\ \E i \in 1..Len(cls[last.arg].cf) :
           /\ ~StepCreator(last.arg, i).user
           /\ Constructed(last.ret, i)

\* C27: remove_unused_components on the tree that a call of it which did not
\* raise has left raises nothing and leaves the tree as it is.
C27_PruneIdempotent ==
    (last.op = "prune" /\ last.err = "ok") =>
        remove_unused_components(tree.val) = [err |-> "ok", val |-> tree.val]

\* remove_unused_components was called on a tree that an earlier call had
\* deleted from, at the top or in a subtree, and that still has a subtree
C27_Witness ==
    /\ last.op = "prune" /\ last.err = "ok"
    /\ last.ret = tree.val
    /\ Cardinality(Places(tree.val)) < Cardinality(Places(tree.orig))
    /\ \E i \in 1..Len(tree.val) : tree.val[i].t = "tree" /\ tree.val[i].v # <<>>

====
